---- MODULE Spec2Model ----
(***************************************************************************)
(* Forecast dashboard: the chart trace builder (buildTraces), the facet    *)
(* tabs (tabGroups / filteredData), the data load (loadData), the CSV line *)
(* parser of the grid-data route (parseCsvLine) and the PBA join query.    *)
(***************************************************************************)
EXTENDS Integers, Sequences, FiniteSets, TLC

VARIABLES
    gridData,         \* useState<JoinedRow[]>
    pbaData,          \* useState<PbaRow[]>
    loading,          \* useState(true)
    error,            \* useState<string | null>
    activeTab,        \* useState("all")
    selectedGridKey,  \* useState<string | null>
    loads,            \* the loadData() invocations started so far
    vp,               \* PBA query: table vp (pivoted)
    vovi,             \* PBA query: table vovi
    intraday_pba,     \* PBA query: table intraday_pba
    pba_result,       \* PBA query: the rows the query returned
    contexts,         \* the directories of data/contexts, in name order
    csvRow,           \* the field values of one row of joined.csv
    csvLine,          \* parseCsvLine: its argument, the row as delimited text
    csvFields,        \* parseCsvLine: its return value
    clickedRow,       \* the row of the last onRowClicked event, 0 before any
    pc                \* "start" until the query / the parser has run, then "done"

vars == <<gridData, pbaData, loading, error, activeTab, selectedGridKey, loads,
          vp, vovi, intraday_pba, pba_result, contexts, csvRow, csvLine, csvFields,
          clickedRow, pc>>

uiVars == <<gridData, pbaData, loading, error, activeTab, selectedGridKey, loads>>
sqlVars == <<vp, vovi, intraday_pba, pba_result>>
csvVars == <<csvRow, csvLine, csvFields>>
fsVars == <<contexts>>
evVars == <<clickedRow>>

\* ---------------------------------------------------------------- values

\* null of a numeric field (number | null); every number of the model is >= 0
Null == -1
\* null of a string field held as an atomic string
Nil == "<null>"

\* longest telemetry array explored
MaxPbaRows == 3

SeqsUpTo(S, n) == UNION {[1..k -> S] : k \in 0..n}

\* indices of keys, stably sorted by ascending key (Array.prototype.sort with a
\* numeric comparator a - b: equal keys keep their relative order)
StableOrder(keys) ==
    LET n == Len(keys)
        pos(i) == Cardinality({j \in 1..n : keys[j] < keys[i]
                                            \/ (keys[j] = keys[i] /\ j < i)}) + 1
    IN  [p \in 1..n |-> CHOOSE i \in 1..n : pos(i) = p]

\* ------------------------------------------------------------ telemetry

KeyA == "2026-01-05#STA1#08:00"
KeyB == "2026-01-05#STA2#08:00"
GridKeys == {KeyA, KeyB}
Labels == {"1d06h", "2d12h"}
Ranks == {3, 5}
MarkerTypes == <<"vp_automated", "vp_weekly", "vp_vovi">>

\* a PbaRow; the quantile fields are null together with p10 / p90
PbaRow(key, type, dhm, rank, p10, p90) ==
    [grid_key |-> key, pba_type |-> type, pba_dhm_horizon |-> dhm,
     pba_horizon_rank |-> rank,
     pba_scheduled |-> 100 + rank, pba_slammed |-> 50 + rank,
     pba_soft_cap |-> 200, pba_hard_cap |-> 250,
     pba_p10 |-> p10, pba_p30 |-> IF p10 = Null THEN Null ELSE p10 + 10,
     pba_p70 |-> IF p90 = Null THEN Null ELSE p90 - 10, pba_p90 |-> p90,
     pba_cumulative_median |-> IF p10 = Null \/ p90 = Null THEN Null ELSE 120,
     pba_cumulative_median_adj |-> IF p10 = Null \/ p90 = Null THEN Null ELSE 125]

PbaRowDomain ==
    {PbaRow(KeyA, "target", d, r, q[1], q[2]) :
        d \in Labels, r \in Ranks, q \in {<<Null, Null>>, <<80, 160>>}}
    \cup {PbaRow(KeyA, "target", "1d06h", 3, 80, Null)}
    \cup {PbaRow(KeyA, "match", d, r, Null, Null) : d \in Labels, r \in Ranks}
    \cup {PbaRow(KeyA, MarkerTypes[t], "2d12h", 5, Null, Null) : t \in 1..3}
    \cup {PbaRow(KeyA, "vp_automated", "9d00h", 3, Null, Null)}
    \cup {PbaRow(KeyB, "target", "2d12h", 3, Null, Null)}

\* ---------------------------------------------------- Chart Trace Builder

TRACE_CONFIGS ==
    << [field |-> "pba_scheduled", name |-> "sch", hidden |-> FALSE],
       [field |-> "pba_slammed",   name |-> "slm", hidden |-> TRUE],
       [field |-> "pba_soft_cap",  name |-> "cap", hidden |-> FALSE],
       [field |-> "pba_hard_cap",  name |-> "cap", hidden |-> FALSE] >>

markerConfigs ==
    << [type |-> "vp_automated", name |-> "auto fcst",   hidden |-> FALSE],
       [type |-> "vp_weekly",    name |-> "weekly fcst", hidden |-> TRUE],
       [type |-> "vp_vovi",      name |-> "vovi fcst",   hidden |-> FALSE] >>

\* pbaData.filter((r) => r.grid_key === gridKey)
filtered(data, gridKey) == SelectSeq(data, LAMBDA r : r.grid_key = gridKey)

isMarker(r) == r.pba_type \in {"vp_automated", "vp_weekly", "vp_vovi"}

\* horizonMap after the loop over rows[1..n]: a Map as the sequence of its
\* entries <<dhm, rank>> in insertion order; set() on a present key keeps its place
RECURSIVE horizonMap(_, _)
horizonMap(rows, n) ==
    IF n = 0 THEN <<>>
    ELSE LET m == horizonMap(rows, n - 1)
             r == rows[n]
             at == {i \in 1..Len(m) : m[i][1] = r.pba_dhm_horizon}
         IN  IF isMarker(r) THEN m
             ELSE IF at = {} THEN Append(m, <<r.pba_dhm_horizon, r.pba_horizon_rank>>)
             ELSE LET i == CHOOSE i \in at : TRUE
                  IN  IF r.pba_horizon_rank < m[i][2]
                      THEN [m EXCEPT ![i] = <<r.pba_dhm_horizon, r.pba_horizon_rank>>]
                      ELSE m

\* position of a horizon label in lexical (string) order
LexPos(dhm) == CASE dhm = "1d06h" -> 1 [] dhm = "2d12h" -> 2 [] OTHER -> 3

\* mutant of categoryOrderOf: the entries sorted by label string instead of rank
categoryOrderOf_lexical(rows) ==
    LET m == horizonMap(rows, Len(rows))
        ord == StableOrder([i \in 1..Len(m) |-> LexPos(m[i][1])])
    IN  [p \in 1..Len(m) |-> m[ord[p]][1]]

\* Array.from(horizonMap.entries()).sort((a, b) => a[1] - b[1]).map(([dhm]) => dhm)
categoryOrderOf(rows) ==
    LET m == horizonMap(rows, Len(rows))
        ord == StableOrder([i \in 1..Len(m) |-> m[i][2]])
    IN  [p \in 1..Len(m) |-> m[ord[p]][1]]

\* mutant of groupRows: the rows of the group stay in input order
groupRows_inputOrder(rows, pbaType) == SelectSeq(rows, LAMBDA r : r.pba_type = pbaType)

\* filtered.filter((r) => r.pba_type === pbaType).sort(by pba_horizon_rank)
groupRows(rows, pbaType) ==
    LET g == SelectSeq(rows, LAMBDA r : r.pba_type = pbaType)
        ord == StableOrder([i \in 1..Len(g) |-> g[i].pba_horizon_rank])
    IN  [p \in 1..Len(g) |-> g[ord[p]]]

Field(r, f) ==
    CASE f = "pba_scheduled" -> r.pba_scheduled
      [] f = "pba_slammed"   -> r.pba_slammed
      [] f = "pba_soft_cap"  -> r.pba_soft_cap
      [] f = "pba_hard_cap"  -> r.pba_hard_cap

\* v ?? d
Coalesce(v, d) == IF v = Null THEN d ELSE v

Trace(x, y, name, legendgroup, showlegend, mode, visible, fill) ==
    [x |-> x, y |-> y, name |-> name, legendgroup |-> legendgroup,
     showlegend |-> showlegend, mode |-> mode, visible |-> visible, fill |-> fill]

\* mutant of configTraces: every series in a legend group of its own name
configTraces_ownGroups(rows, pbaType) ==
    LET x == [i \in 1..Len(rows) |-> rows[i].pba_dhm_horizon]
        prefix == IF pbaType = "match" THEN "match-" ELSE ""
    IN  [c \in 1..Len(TRACE_CONFIGS) |->
            LET cfg == TRACE_CONFIGS[c]
                isHardCap == cfg.field = "pba_hard_cap"
                name == IF isHardCap THEN prefix \o cfg.name \o " (hard)"
                                     ELSE prefix \o cfg.name
            IN  Trace(x,
                      [i \in 1..Len(rows) |-> Field(rows[i], cfg.field)],
                      name, name, ~isHardCap, "lines",
                      IF cfg.hidden THEN "legendonly" ELSE "true", "none")]

\* the traces pushed by the loop over TRACE_CONFIGS for one group
configTraces(rows, pbaType) ==
    LET x == [i \in 1..Len(rows) |-> rows[i].pba_dhm_horizon]
        prefix == IF pbaType = "match" THEN "match-" ELSE ""
    IN  [c \in 1..Len(TRACE_CONFIGS) |->
            LET cfg == TRACE_CONFIGS[c]
                isHardCap == cfg.field = "pba_hard_cap"
                isSoftCap == cfg.field = "pba_soft_cap"
            IN  Trace(x,
                      [i \in 1..Len(rows) |-> Field(rows[i], cfg.field)],
                      IF isHardCap THEN prefix \o cfg.name \o " (hard)"
                                   ELSE prefix \o cfg.name,
                      IF isSoftCap \/ isHardCap THEN prefix \o "cap"
                                                ELSE prefix \o cfg.name,
                      ~isHardCap, "lines",
                      IF cfg.hidden THEN "legendonly" ELSE "true", "none")]

\* rows.some((r) => r.pba_p10 != null && r.pba_p90 != null)
hasFan(rows) ==
    \E i \in 1..Len(rows) : rows[i].pba_p10 # Null /\ rows[i].pba_p90 # Null

\* mutant of fanTraces: both lower bounds pushed first, then both upper bounds
fanTraces_lowersFirst(rows) ==
    LET x == [i \in 1..Len(rows) |-> rows[i].pba_dhm_horizon]
        col(q(_)) == [i \in 1..Len(rows) |-> q(rows[i])]
        p10(r) == Coalesce(r.pba_p10, r.pba_scheduled)
        p90(r) == Coalesce(r.pba_p90, r.pba_scheduled)
        p30(r) == Coalesce(r.pba_p30, r.pba_scheduled)
        p70(r) == Coalesce(r.pba_p70, r.pba_scheduled)
        med(r) == r.pba_cumulative_median
        adj(r) == r.pba_cumulative_median_adj
    IN  << Trace(x, col(p10), "p10-p90", "fan-outer", FALSE, "lines", "true", "none"),
           Trace(x, col(p30), "p30-p70", "fan-inner", FALSE, "lines", "true", "none"),
           Trace(x, col(p90), "p10-p90", "fan-outer", TRUE, "lines", "true", "tonexty"),
           Trace(x, col(p70), "p30-p70", "fan-inner", TRUE, "lines", "true", "tonexty"),
           Trace(x, col(med), "median", "median", TRUE, "lines", "true", "none"),
           Trace(x, col(adj), "median adj", "median-adj", TRUE, "lines",
                 "legendonly", "none") >>

\* the six fan chart traces of the target group
fanTraces(rows) ==
    LET x == [i \in 1..Len(rows) |-> rows[i].pba_dhm_horizon]
        col(q(_)) == [i \in 1..Len(rows) |-> q(rows[i])]
        p10(r) == Coalesce(r.pba_p10, r.pba_scheduled)
        p90(r) == Coalesce(r.pba_p90, r.pba_scheduled)
        p30(r) == Coalesce(r.pba_p30, r.pba_scheduled)
        p70(r) == Coalesce(r.pba_p70, r.pba_scheduled)
        med(r) == r.pba_cumulative_median
        adj(r) == r.pba_cumulative_median_adj
    IN  << Trace(x, col(p10), "p10-p90", "fan-outer", FALSE, "lines", "true", "none"),
           Trace(x, col(p90), "p10-p90", "fan-outer", TRUE, "lines", "true", "tonexty"),
           Trace(x, col(p30), "p30-p70", "fan-inner", FALSE, "lines", "true", "none"),
           Trace(x, col(p70), "p30-p70", "fan-inner", TRUE, "lines", "true", "tonexty"),
           Trace(x, col(med), "median", "median", TRUE, "lines", "true", "none"),
           Trace(x, col(adj), "median adj", "median-adj", TRUE, "lines",
                 "legendonly", "none") >>

\* one iteration of: for (const pbaType of ["target", "match"])
groupTraces(rows, pbaType) ==
    LET g == groupRows(rows, pbaType)
    IN  IF Len(g) = 0 THEN <<>>
        ELSE configTraces(g, pbaType)
             \o (IF pbaType = "target" /\ hasFan(g) THEN fanTraces(g) ELSE <<>>)

\* mutant of markerTraces: a marker for every row of the type
markerTraces_everyRow(rows, mc) ==
    LET g == SelectSeq(rows, LAMBDA r : r.pba_type = mc.type)
    IN  [i \in 1..Len(g) |->
            Trace(<<g[i].pba_dhm_horizon>>, <<g[i].pba_scheduled>>, mc.name,
                  mc.name, TRUE, "markers",
                  IF mc.hidden THEN "legendonly" ELSE "true", "none")]

\* one iteration of: for (const mc of markerConfigs); find() takes the first row
markerTraces(rows, mc) ==
    LET at == {i \in 1..Len(rows) : rows[i].pba_type = mc.type}
    IN  IF at = {} THEN <<>>
        ELSE LET row == rows[CHOOSE i \in at : \A j \in at : i <= j]
             IN  << Trace(<<row.pba_dhm_horizon>>, <<row.pba_scheduled>>, mc.name,
                          mc.name, TRUE, "markers",
                          IF mc.hidden THEN "legendonly" ELSE "true", "none") >>

\* mutant of buildTraces: the match group is emitted ahead of the target group
buildTraces_matchFirst(data, gridKey) ==
    LET f == filtered(data, gridKey)
    IN  [traces |-> groupTraces(f, "match") \o groupTraces(f, "target")
                    \o markerTraces(f, markerConfigs[1])
                    \o markerTraces(f, markerConfigs[2])
                    \o markerTraces(f, markerConfigs[3]),
         categoryOrder |-> categoryOrderOf(f)]

buildTraces(data, gridKey) ==
    LET f == filtered(data, gridKey)
    IN  [traces |-> groupTraces(f, "target") \o groupTraces(f, "match")
                    \o markerTraces(f, markerConfigs[1])
                    \o markerTraces(f, markerConfigs[2])
                    \o markerTraces(f, markerConfigs[3]),
         categoryOrder |-> categoryOrderOf(f)]

\* mutant of pbaDataAfterBuild: the rows are sorted by rank in the array itself
pbaDataAfterBuild_sortedInPlace(data, gridKey) ==
    LET ord == StableOrder([i \in 1..Len(data) |-> data[i].pba_horizon_rank])
    IN  [p \in 1..Len(data) |-> data[ord[p]]]

\* the array buildTraces was given, after the call: filter() returns new arrays,
\* sort() works on the array filter() returned, the rows are only read
pbaDataAfterBuild(data, gridKey) == data

\* useMemo: the chart of the current selection
chartResult ==
    IF selectedGridKey = Nil THEN [traces |-> <<>>, categoryOrder |-> <<>>]
    ELSE buildTraces(pbaData, selectedGridKey)

\* ------------------------------------------------------------ joined rows
\* Strings that the code splits, slices or lower-cases are sequences of
\* one-character strings; NullStr is null for such a field.

NullStr == <<"<null>">>
S_false == <<"f", "a", "l", "s", "e">>
S_true == <<"t", "r", "u", "e">>
S_null == <<"n", "u", "l", "l">>
S_all == <<"a", "l", "l">>
S_flagPrefix == <<"f", "l", "a", "g", ":">>
S_anomalyFlagged == <<"a", "n", "o", "m", "a", "l", "y", ":", "f", "l", "a", "g", "g", "e", "d">>
S_anomalyFalse == <<"a", "n", "o", "m", "a", "l", "y", ":", "f", "a", "l", "s", "e">>
S_underCap == <<"u", "n", "d", "e", "r", "_", "c", "a", "p">>
S_setupAnomaly == <<"s", "e", "t", "u", "p", "_", "a", "n", "o", "m", "a", "l", "y">>
S_confChanged == <<"c", "o", "n", "f", "_", "c", "h", "a", "n", "g", "e", "d">>

\* String.prototype.toLowerCase on the letters the model uses
LowerChar(c) ==
    CASE c = "F" -> "f" [] c = "A" -> "a" [] c = "L" -> "l" [] c = "S" -> "s"
      [] c = "E" -> "e" [] c = "T" -> "t" [] c = "R" -> "r" [] c = "U" -> "u"
      [] OTHER -> c
\* mutant of toLowerCase: the text is compared as written
toLowerCase_identity(s) == s
toLowerCase(s) == [i \in 1..Len(s) |-> LowerChar(s[i])]

\* String(v) of a string | null
String(v) == IF v = NullStr THEN S_null ELSE v

\* parseFloat(String(v)) of a numeric column: the field holds the number the text
\* parses to, or NaN for text that is no number
NaN == -2
parseFloat(v) == v
isNaN(v) == v = NaN

\* str.split(","): the pieces between commas, empty pieces included
RECURSIVE split(_)
split(s) ==
    LET commas == {i \in 1..Len(s) : s[i] = ","}
    IN  IF commas = {} THEN <<s>>
        ELSE LET c == CHOOSE i \in commas : \A j \in commas : i <= j
             IN  <<SubSeq(s, 1, c - 1)>> \o split(SubSeq(s, c + 1, Len(s)))

\* parseFlags: if (!row.flags) return []; row.flags.split(",").filter(Boolean)
parseFlags(flags) ==
    IF flags = NullStr \/ flags = <<>> THEN <<>>
    ELSE SelectSeq(split(flags), LAMBDA t : t # <<>>)

\* deriveTabGroup: `${row.available_inputs ?? "unknown"}_${row.automated_confidence ?? "none"}`
deriveTabGroup(inputs, confidence) ==
    (IF inputs = NullStr THEN <<"u", "n", "k", "n", "o", "w", "n">> ELSE inputs)
    \o <<"_">> \o (IF confidence = NullStr THEN <<"n", "o", "n", "e">> ELSE confidence)

JoinedRow(key, flags, anomaly, auto, cap, setupAnomaly, changed) ==
    [grid_key_local |-> key, flags |-> flags, _flags |-> parseFlags(flags),
     available_inputs |-> <<"v", "p">>, automated_confidence |-> NullStr,
     tab_group |-> deriveTabGroup(<<"v", "p">>, NullStr),
     confidence_anomaly |-> anomaly,
     automated_uncapped_slam_forecast |-> auto, atrops_soft_cap |-> cap,
     setup_confidence_anomaly |-> setupAnomaly, confidence_changed |-> changed,
     severity |-> Null]

\* ------------------------------------------------------------ idle parts

NoSql == /\ vp = {} /\ vovi = {} /\ intraday_pba = {} /\ pba_result = <<>>
NoCsv == /\ csvRow = <<>> /\ csvLine = <<>> /\ csvFields = <<>>
NoFs == contexts = <<>>
NoEv == clickedRow = 0

\* ------------------------------------------------ SpecChart: grid events
\* The dashboard with its data loaded: a row click selects the chart's key.

ChartGrid ==
    << JoinedRow(KeyA, NullStr, S_false, Null, Null, NullStr, NullStr),
       JoinedRow(KeyB, NullStr, S_false, Null, Null, NullStr, NullStr),
       JoinedRow(Nil, NullStr, S_false, Null, Null, NullStr, NullStr) >>

InitChart ==
    /\ pbaData \in SeqsUpTo(PbaRowDomain, MaxPbaRows)
    /\ gridData = ChartGrid
    /\ loading = FALSE
    /\ error = Nil
    /\ activeTab = S_all
    /\ selectedGridKey = Nil
    /\ loads = <<>>
    /\ NoSql
    /\ NoCsv
    /\ NoFs
    /\ NoEv
    /\ pc = "done"

\* mutant of onRowClicked: a click while a key is selected clears the selection,
\* whichever row is clicked
onRowClicked_clearsOnAnyClick(i) ==
    LET key == gridData[i].grid_key_local
    IN  /\ ~loading /\ error = Nil
        /\ selectedGridKey' = IF selectedGridKey # Nil THEN Nil ELSE key
        /\ UNCHANGED <<gridData, pbaData, loading, error, activeTab, loads>>
        /\ UNCHANGED sqlVars
        /\ UNCHANGED csvVars
        /\ UNCHANGED fsVars
        /\ clickedRow' = i
        /\ UNCHANGED pc

\* onRowClicked: setSelectedGridKey((prev) => (prev === key ? null : key)); the
\* render that follows calls buildTraces(pbaData, selectedGridKey) for a key
onRowClicked(i) ==
    LET key == gridData[i].grid_key_local
    IN  /\ ~loading /\ error = Nil
        /\ selectedGridKey' = IF selectedGridKey = key THEN Nil ELSE key
        /\ pbaData' = IF selectedGridKey' = Nil THEN pbaData
                       ELSE pbaDataAfterBuild(pbaData, selectedGridKey')
        /\ UNCHANGED <<gridData, loading, error, activeTab, loads>>
        /\ UNCHANGED sqlVars
        /\ UNCHANGED csvVars
        /\ UNCHANGED fsVars
        /\ clickedRow' = i
        /\ UNCHANGED pc

NextChart == \E i \in 1..Len(gridData) : onRowClicked(i)

SpecChart == InitChart /\ [][NextChart]_vars

\* the target and match rows of the selected key, as buildTraces reads them
SelRows == {pbaData[i] : i \in {j \in 1..Len(pbaData) :
                pbaData[j].grid_key = selectedGridKey
                /\ pbaData[j].pba_type \in {"target", "match"}}}
MinRankOf(dhm) ==
    LET rs == {r.pba_horizon_rank : r \in {q \in SelRows : q.pba_dhm_horizon = dhm}}
    IN  CHOOSE m \in rs : \A k \in rs : m <= k
Range(s) == {s[i] : i \in 1..Len(s)}

\* C1: categoryOrder holds exactly the distinct horizon labels of the selected
\* key's target and match rows, each once, and a label of smaller minimum rank
\* comes before a label of larger minimum rank.
C1_CategoryOrderByMinRank ==
    selectedGridKey # Nil =>
        LET co == chartResult.categoryOrder
        IN  /\ Range(co) = {r.pba_dhm_horizon : r \in SelRows}
            /\ Len(co) = Cardinality(Range(co))
            /\ \A i, j \in 1..Len(co) :
                   MinRankOf(co[i]) < MinRankOf(co[j]) => i < j

\* C1 witness: the label that is lexically larger comes first, by its rank
C1_Witness ==
    /\ selectedGridKey = KeyA
    /\ chartResult.categoryOrder = <<"2d12h", "1d06h">>
    /\ MinRankOf("2d12h") = 3 /\ MinRankOf("1d06h") = 5

TargetRows == {r \in SelRows : r.pba_type = "target"}
HasBands(traces) ==
    \E i \in 1..Len(traces) : traces[i].legendgroup \in {"fan-outer", "fan-inner"}

\* C2: with a non-empty target group, the band series are emitted if and only
\* if every target row has non-null pba_p10 and non-null pba_p90.
C2_BandsIffEveryRow ==
    (selectedGridKey # Nil /\ TargetRows # {}) =>
        (HasBands(chartResult.traces)
            <=> \A r \in TargetRows : r.pba_p10 # Null /\ r.pba_p90 # Null)

Perms(n) == {f \in [1..n -> 1..n] : \A i, j \in 1..n : f[i] = f[j] => i = j}

\* C3: categoryOrder is the same for every permutation of the telemetry array.
C3_CategoryOrderPermutationInvariant ==
    selectedGridKey # Nil =>
        \A f \in Perms(Len(pbaData)) :
            buildTraces([i \in 1..Len(pbaData) |-> pbaData[f[i]]],
                        selectedGridKey).categoryOrder
                = chartResult.categoryOrder

\* C4: every series with fill "tonexty" directly follows its own lower bound:
\* same legend group, same x, no fill, p10 under p90 and p30 under p70.
C4_FillFollowsLowerBound ==
    selectedGridKey # Nil =>
        LET t == chartResult.traces
            g == groupRows(filtered(pbaData, selectedGridKey), "target")
            lower(q) == [k \in 1..Len(g) |->
                            Coalesce(IF q = "fan-outer" THEN g[k].pba_p10
                                     ELSE g[k].pba_p30, g[k].pba_scheduled)]
            upper(q) == [k \in 1..Len(g) |->
                            Coalesce(IF q = "fan-outer" THEN g[k].pba_p90
                                     ELSE g[k].pba_p70, g[k].pba_scheduled)]
        IN  \A i \in 1..Len(t) :
                t[i].fill = "tonexty" =>
                    /\ i > 1
                    /\ t[i - 1].fill = "none"
                    /\ t[i - 1].legendgroup = t[i].legendgroup
                    /\ t[i - 1].x = t[i].x
                    /\ t[i - 1].y = lower(t[i].legendgroup)
                    /\ t[i].y = upper(t[i].legendgroup)

\* C4 witness: both bands are on the chart, after the four group series
C4_Witness ==
    /\ selectedGridKey # Nil
    /\ Len(chartResult.traces) >= 8
    /\ chartResult.traces[6].fill = "tonexty"
    /\ chartResult.traces[8].fill = "tonexty"
    /\ chartResult.traces[6].y # chartResult.traces[8].y

\* ------------------------------------------------------------ PBA query
\* Tables are sets of rows.  A timestamp is its epoch seconds, a date its day
\* number, an 'HH:MM' text the pair <<hour, minute>>; SQL NULL is Null for a
\* number or date and Nil for a text.  A comparison with NULL is unknown ("U").

MaxVp == 2
MaxVovi == 2
MaxIntraday == 2

SubsetsUpTo(S, n) == {T \in SUBSET S : Cardinality(T) <= n}

Stations == {"STA1", "STA2"}
\* 1970-01-02 08:00:00 and 09:00:00 UTC
Cpt0800 == 86400 + 8 * 3600
Cpt0900 == 86400 + 9 * 3600

\* strftime(ts, '%H:%M'); NULL (the empty text) of NULL
strftime(ts) == IF ts = Null THEN <<>> ELSE <<(ts \div 3600) % 24, (ts \div 60) % 60>>

VpDomain ==
    {[node |-> s, cpts_utc |-> <<8, 0>>, ofd_date |-> 1] : s \in Stations}
    \cup {[node |-> "STA1", cpts_utc |-> <<9, 0>>, ofd_date |-> 1]}

VoviDomain ==
    {[station |-> "STA1", station_cpt |-> Cpt0800, cpt_date |-> d, match_key |-> k] :
        d \in {1, 2}, k \in {Null, 0, 1}}
    \cup {[station |-> "STA1", station_cpt |-> Cpt0900, cpt_date |-> 1, match_key |-> 0]}

IntradayDomain ==
    {[station |-> s, cpt_utc |-> Cpt0800, ofd_date |-> d, horizon_minute |-> m,
      horizon_rank |-> 0] : s \in Stations, d \in {0, 1, 2}, m \in {0, 30}}
    \cup {[station |-> "STA1", cpt_utc |-> Cpt0800, ofd_date |-> 1, horizon_minute |-> 0,
           horizon_rank |-> 1]}

\* the V side of a vp row that the LEFT JOIN matched with no vovi row
NullVovi == [station |-> Nil, station_cpt |-> Null, cpt_date |-> Null, match_key |-> Null]

\* a = b in SQL: of two numbers or dates, of two texts, of two 'HH:MM' texts
Eq(a, b) == IF a = Null \/ b = Null THEN "U" ELSE IF a = b THEN "T" ELSE "F"
EqText(a, b) == IF a = Nil \/ b = Nil THEN "U" ELSE IF a = b THEN "T" ELSE "F"
EqTime(a, b) == IF a = <<>> \/ b = <<>> THEN "U" ELSE IF a = b THEN "T" ELSE "F"
And3(a, b) == IF a = "F" \/ b = "F" THEN "F" ELSE IF a = "T" /\ b = "T" THEN "T" ELSE "U"
Or3(a, b) == IF a = "T" \/ b = "T" THEN "T" ELSE IF a = "F" /\ b = "F" THEN "F" ELSE "U"
\* COALESCE(a, b)
COALESCE(a, b) == IF a = Nil THEN b ELSE a

\* LEFT JOIN vovi V ON P.node = V.station AND P.cpts_utc = strftime(... V.station_cpt ...)
voviOn(P, V) ==
    And3(EqText(P.node, V.station), EqTime(P.cpts_utc, strftime(V.station_cpt)))

\* vp P LEFT JOIN vovi V: every vp row, with each vovi row it matches or with NULLs
leftJoin(ps, vs) ==
    {<<P, V>> \in ps \X vs : voviOn(P, V) = "T"}
    \cup {<<P, NullVovi>> : P \in {Q \in ps : \A V \in vs : voviOn(Q, V) # "T"}}

\* mutant of intradayOn: the date restriction left out of the ON clause
intradayOn_noDate(P, V, I) ==
    And3(EqText(COALESCE(P.node, V.station), I.station),
         EqTime(P.cpts_utc, strftime(I.cpt_utc)))

\* INNER JOIN intraday_pba I ON COALESCE(P.node, V.station) = I.station
\*   AND P.cpts_utc = strftime(I.cpt_utc, '%H:%M')
\*   AND (I.ofd_date = V.cpt_date::DATE OR I.ofd_date = V.match_key::DATE)
intradayOn(P, V, I) ==
    And3(And3(EqText(COALESCE(P.node, V.station), I.station),
              EqTime(P.cpts_utc, strftime(I.cpt_utc))),
         Or3(Eq(I.ofd_date, V.cpt_date), Eq(I.ofd_date, V.match_key)))

\* CASE WHEN I.ofd_date = V.cpt_date::DATE THEN 'target'
\*      WHEN I.ofd_date = V.match_key::DATE THEN 'match' END
pba_type(V, I) ==
    IF Eq(I.ofd_date, V.cpt_date) = "T" THEN "target"
    ELSE IF Eq(I.ofd_date, V.match_key) = "T" THEN "match"
    ELSE Nil

\* FROM ... JOIN ... WHERE I.horizon_minute = 0, and the SELECT list: the output
\* row keeps the rows it was joined from
selectRows(ps, vs, is) ==
    {[pba_type |-> pba_type(t[1][2], t[2]),
      node |-> t[2].station,
      pba_ofd_date |-> t[2].ofd_date,
      pba_horizon_rank |-> t[2].horizon_rank,
      pba_horizon_minute |-> t[2].horizon_minute,
      P |-> t[1][1], V |-> t[1][2], I |-> t[2]] :
        t \in {u \in leftJoin(ps, vs) \X is :
                  /\ intradayOn(u[1][1], u[1][2], u[2]) = "T"
                  /\ u[2].horizon_minute = 0}}

\* ORDER BY COALESCE(P.node, V.station), P.cpts_utc, pba_type, pba_horizon_rank:
\* text compares by code point ('STA1' < 'STA2', 'match' < 'target', NULL last)
TextPos(t) ==
    CASE t = "STA1" -> 1 [] t = "STA2" -> 2 [] t = "match" -> 1 [] t = "target" -> 2
      [] OTHER -> 3
orderKey(r) ==
    <<TextPos(COALESCE(r.P.node, r.V.station)), r.P.cpts_utc[1], r.P.cpts_utc[2],
      TextPos(r.pba_type), r.pba_horizon_rank>>
RECURSIVE keyLeq(_, _)
keyLeq(a, b) ==
    IF a = <<>> THEN TRUE
    ELSE \/ Head(a) < Head(b)
         \/ (Head(a) = Head(b) /\ keyLeq(Tail(a), Tail(b)))

\* the orders in which the query may return the rows: any order that respects
\* the ORDER BY keys
orderings(rows) ==
    {s \in [1..Cardinality(rows) -> rows] :
        /\ \A r \in rows : \E i \in 1..Cardinality(rows) : s[i] = r
        /\ \A i, j \in 1..Cardinality(rows) :
               i < j => keyLeq(orderKey(s[i]), orderKey(s[j]))}

NoUi ==
    /\ gridData = <<>> /\ pbaData = <<>> /\ loading = TRUE /\ error = Nil
    /\ activeTab = S_all /\ selectedGridKey = Nil /\ loads = <<>>

InitPba ==
    /\ vp \in SubsetsUpTo(VpDomain, MaxVp)
    /\ vovi \in SubsetsUpTo(VoviDomain, MaxVovi)
    /\ intraday_pba \in SubsetsUpTo(IntradayDomain, MaxIntraday)
    /\ pba_result = <<>>
    /\ NoUi
    /\ NoCsv
    /\ NoFs
    /\ NoEv
    /\ pc = "start"

\* the PBA query run on the loaded tables
RunPbaQuery ==
    /\ pc = "start"
    /\ pc' = "done"
    /\ pba_result' \in orderings(selectRows(vp, vovi, intraday_pba))
    /\ UNCHANGED <<vp, vovi, intraday_pba>>
    /\ UNCHANGED uiVars
    /\ UNCHANGED csvVars
    /\ UNCHANGED fsVars
    /\ UNCHANGED evVars

NextPba == RunPbaQuery

SpecPba == InitPba /\ [][NextPba]_vars

ResultRows == {pba_result[i] : i \in 1..Len(pba_result)}

\* C5: a planned record with no override record, and a minute-zero snapshot of
\* its station and cutoff time observed on the planned forecast date, give an
\* output row classified 'target' for that cell.
C5_PlannedOnlyGivesTarget ==
    pc = "done" =>
        \A P \in vp : \A I \in intraday_pba :
            (/\ \A V \in vovi : ~(V.station = P.node /\ strftime(V.station_cpt) = P.cpts_utc)
             /\ I.station = P.node
             /\ strftime(I.cpt_utc) = P.cpts_utc
             /\ I.horizon_minute = 0
             /\ I.ofd_date = P.ofd_date)
            => \E r \in ResultRows : r.P = P /\ r.I = I /\ r.pba_type = "target"

\* C6: every output row is classified 'target' or 'match'; a snapshot observed on
\* a date that is both the target date and the match date is 'target'; a snapshot
\* observed on neither date gives no output row for that planned/override pair.
C6_ExactlyOneClassification ==
    pc = "done" =>
        /\ \A r \in ResultRows :
               /\ r.pba_type \in {"target", "match"}
               /\ (r.I.ofd_date = r.V.cpt_date /\ r.I.ofd_date = r.V.match_key)
                      => r.pba_type = "target"
        /\ \A j \in leftJoin(vp, vovi) : \A I \in intraday_pba :
               (I.ofd_date # j[2].cpt_date /\ I.ofd_date # j[2].match_key)
                   => ~\E r \in ResultRows : r.P = j[1] /\ r.V = j[2] /\ r.I = I

\* C6 witness: one query returned a 'target' row whose date is also the match
\* date, and a 'match' row, while a snapshot of the cell matching neither date
\* is absent
C6_Witness ==
    /\ pc = "done"
    /\ \E r \in ResultRows :
           r.pba_type = "target" /\ r.I.ofd_date = r.V.match_key
    /\ \E r \in ResultRows : r.pba_type = "match"
    /\ \E j \in leftJoin(vp, vovi) : \E I \in intraday_pba :
           /\ j[2] # NullVovi
           /\ I.station = j[1].node /\ strftime(I.cpt_utc) = j[1].cpts_utc
           /\ I.horizon_minute = 0
           /\ I.ofd_date # j[2].cpt_date /\ I.ofd_date # j[2].match_key

\* ------------------------------------------------------------ Data Loading
\* One record of loads per run of the effect: its loadData() call and its
\* `cancelled` flag.  loadData suspends at its awaits: Promise.allSettled, the
\* grid body (json() or text()), the PBA body (json()).

MaxLoads == 2

\* what a joined.csv / visual.json of the context directory holds
GridBodies ==
    { << JoinedRow(KeyA, NullStr, S_false, Null, Null, NullStr, NullStr) >>,
      << JoinedRow(KeyA, NullStr, S_true, Null, Null, NullStr, NullStr),
         JoinedRow(KeyB, NullStr, S_false, Null, Null, NullStr, NullStr) >> }
PbaBodies ==
    { << PbaRow(KeyA, "target", "1d06h", 3, Null, Null) >>,
      << PbaRow(KeyB, "target", "2d12h", 5, Null, Null),
         PbaRow(KeyB, "match", "2d12h", 5, Null, Null) >> }

\* a settled fetch: rejected, or fulfilled with a status (ok or not), a content
\* type and a body; bodyOk is false for a body whose json() / text() rejects
Rejected == [status |-> "rejected", ok |-> FALSE, json |-> FALSE, bodyOk |-> FALSE,
             body |-> <<>>]
NotOk == [status |-> "fulfilled", ok |-> FALSE, json |-> TRUE, bodyOk |-> TRUE,
          body |-> <<>>]
Pending == [status |-> "pending", ok |-> FALSE, json |-> FALSE, bodyOk |-> FALSE,
            body |-> <<>>]
OkResp(json, body) == [status |-> "fulfilled", ok |-> TRUE, json |-> json,
                       bodyOk |-> TRUE, body |-> body]
BrokenResp(json) == [status |-> "fulfilled", ok |-> TRUE, json |-> json,
                     bodyOk |-> FALSE, body |-> <<>>]

GridResponses ==
    {Rejected, NotOk, BrokenResp(TRUE)}
    \cup {OkResp(j, b) : j \in BOOLEAN, b \in GridBodies}
PbaResponses ==
    {Rejected, NotOk, BrokenResp(TRUE)} \cup {OkResp(TRUE, b) : b \in PbaBodies}

\* resp.status === "fulfilled" && resp.value.ok
fulfilledOk(resp) == resp.status = "fulfilled" /\ resp.ok

InitLoad ==
    /\ gridData = <<>>
    /\ pbaData = <<>>
    /\ loading = TRUE
    /\ error = Nil
    /\ activeTab = S_all
    /\ selectedGridKey = Nil
    /\ loads = <<>>
    /\ NoSql
    /\ NoCsv
    /\ NoFs
    /\ NoEv
    /\ pc = "done"

\* the effect runs (mount, or gridDataUrl / visualDataUrl / refreshKey changed):
\* the cleanup of the previous run sets its cancelled, then loadData() runs up
\* to its first await
StartLoad ==
    /\ Len(loads) < MaxLoads
    /\ loads' = Append([k \in 1..Len(loads) |-> [loads[k] EXCEPT !.cancelled = TRUE]],
                       [pc |-> "fetching", cancelled |-> FALSE,
                        gridResp |-> Pending, pbaResp |-> Pending,
                        prevDone |-> \A k \in 1..Len(loads) : loads[k].pc = "done",
                        gridBefore |-> gridData, pbaBefore |-> pbaData])
    /\ loading' = TRUE
    /\ error' = Nil
    /\ UNCHANGED <<gridData, pbaData, activeTab, selectedGridKey>>
    /\ UNCHANGED sqlVars
    /\ UNCHANGED csvVars
    /\ UNCHANGED fsVars
    /\ UNCHANGED evVars
    /\ UNCHANGED pc

\* finally { if (!cancelled) setLoading(false) }
finallyLoading(l) == IF loads[l].cancelled THEN loading ELSE FALSE
\* catch (e) { if (!cancelled) setError(...) }
catchError(l) == IF loads[l].cancelled THEN error ELSE "Failed to load data"

\* mutant of pbaPart: a failed PBA fetch is thrown instead of degraded
pbaPart_throws(l, p) ==
    IF fulfilledOk(p)
    THEN [pc |-> "pbaBody", pbaData |-> pbaData, error |-> error, loading |-> loading]
    ELSE [pc |-> "done", pbaData |-> pbaData, error |-> catchError(l),
          loading |-> finallyLoading(l)]

\* the "PBA data" part of the try block, up to its await or to the end of
\* loadData: the next pc and the values of pbaData, error and loading
pbaPart(l, p) ==
    IF fulfilledOk(p)
    THEN [pc |-> "pbaBody", pbaData |-> pbaData, error |-> error, loading |-> loading]
    ELSE [pc |-> "done", pbaData |-> <<>>, error |-> error,
          loading |-> finallyLoading(l)]

\* Promise.allSettled resolves with the two results
FetchesSettle(l, g, p) ==
    /\ loads[l].pc = "fetching"
    /\ IF loads[l].cancelled
       THEN /\ loads' = [loads EXCEPT ![l].pc = "done", ![l].gridResp = g,
                                      ![l].pbaResp = p]
            /\ UNCHANGED <<gridData, pbaData, loading, error>>
       ELSE IF fulfilledOk(g)
       THEN /\ loads' = [loads EXCEPT ![l].pc = "gridBody", ![l].gridResp = g,
                                      ![l].pbaResp = p]
            /\ UNCHANGED <<gridData, pbaData, loading, error>>
       ELSE LET r == pbaPart(l, p)
            IN  /\ gridData' = <<>>
                /\ pbaData' = r.pbaData
                /\ error' = r.error
                /\ loading' = r.loading
                /\ loads' = [loads EXCEPT ![l].pc = r.pc, ![l].gridResp = g,
                                          ![l].pbaResp = p]
    /\ UNCHANGED <<activeTab, selectedGridKey>>
    /\ UNCHANGED sqlVars
    /\ UNCHANGED csvVars
    /\ UNCHANGED fsVars
    /\ UNCHANGED evVars
    /\ UNCHANGED pc

\* await gridResp.value.json() / .text() settles
GridBodyRead(l) ==
    /\ loads[l].pc = "gridBody"
    /\ IF ~loads[l].gridResp.bodyOk
       THEN /\ error' = catchError(l)
            /\ loading' = finallyLoading(l)
            /\ loads' = [loads EXCEPT ![l].pc = "done"]
            /\ UNCHANGED <<gridData, pbaData>>
       ELSE LET r == pbaPart(l, loads[l].pbaResp)
            IN  /\ gridData' = loads[l].gridResp.body
                /\ pbaData' = r.pbaData
                /\ error' = r.error
                /\ loading' = r.loading
                /\ loads' = [loads EXCEPT ![l].pc = r.pc]
    /\ UNCHANGED <<activeTab, selectedGridKey>>
    /\ UNCHANGED sqlVars
    /\ UNCHANGED csvVars
    /\ UNCHANGED fsVars
    /\ UNCHANGED evVars
    /\ UNCHANGED pc

\* await pbaResp.value.json() settles
PbaBodyRead(l) ==
    /\ loads[l].pc = "pbaBody"
    /\ IF ~loads[l].pbaResp.bodyOk
       THEN /\ error' = catchError(l)
            /\ UNCHANGED pbaData
       ELSE /\ pbaData' = loads[l].pbaResp.body
            /\ UNCHANGED error
    /\ loading' = finallyLoading(l)
    /\ loads' = [loads EXCEPT ![l].pc = "done"]
    /\ UNCHANGED <<gridData, activeTab, selectedGridKey>>
    /\ UNCHANGED sqlVars
    /\ UNCHANGED csvVars
    /\ UNCHANGED fsVars
    /\ UNCHANGED evVars
    /\ UNCHANGED pc

NextLoad ==
    \/ StartLoad
    \/ \E l \in 1..Len(loads) : \E g \in GridResponses : \E p \in PbaResponses :
           FetchesSettle(l, g, p)
    \/ \E l \in 1..Len(loads) : GridBodyRead(l)
    \/ \E l \in 1..Len(loads) : PbaBodyRead(l)

SpecLoad == InitLoad /\ [][NextLoad]_vars

\* a fetch that rejected or returned a non-success status / one that delivered rows
fetchFailed(resp) == resp.status = "rejected" \/ (resp.status = "fulfilled" /\ ~resp.ok)
fetchSucceeded(resp) == fulfilledOk(resp) /\ resp.bodyOk

\* the load that is current (not superseded) and has finished
Settled(l) ==
    /\ l = Len(loads)
    /\ loads[l].pc = "done"
    /\ ~loads[l].cancelled

\* what the load leaves behind: error null and loading false once the current
\* load has finished, and, for a load that began when no earlier load was still
\* in flight, the failed dataset empty and the other holding the fetched rows
FinishedIndependent ==
    \A l \in 1..Len(loads) :
        Settled(l) =>
            /\ (fetchFailed(loads[l].gridResp) /\ fetchSucceeded(loads[l].pbaResp))
                   => /\ error = Nil /\ loading = FALSE
                      /\ loads[l].prevDone
                             => gridData = <<>> /\ pbaData = loads[l].pbaResp.body
            /\ (fetchSucceeded(loads[l].gridResp) /\ fetchFailed(loads[l].pbaResp))
                   => /\ error = Nil /\ loading = FALSE
                      /\ loads[l].prevDone
                             => gridData = loads[l].gridResp.body /\ pbaData = <<>>

\* what each step of a load with one failed and one successful fetch writes,
\* whatever other loads are in flight
WritesIndependent ==
    \A l \in 1..Len(loads) :
        LET g == loads'[l].gridResp
            p == loads'[l].pbaResp
        IN  ( /\ Len(loads') = Len(loads)
              /\ loads'[l].pc # loads[l].pc
              /\ \/ fetchFailed(g) /\ fetchSucceeded(p)
                 \/ fetchSucceeded(g) /\ fetchFailed(p) )
            => /\ (loads[l].pc = "fetching" /\ ~loads[l].cancelled /\ fetchFailed(g))
                      => gridData' = <<>> /\ loads'[l].pc = "pbaBody"
               /\ loads[l].pc = "gridBody"
                      => gridData' = g.body /\ pbaData' = <<>> /\ loads'[l].pc = "done"
               /\ loads[l].pc = "pbaBody"
                      => pbaData' = p.body /\ loads'[l].pc = "done"
               /\ (loads'[l].pc = "done" /\ ~loads[l].cancelled)
                      => error' = Nil /\ loading' = FALSE

MaxGridRows == 2

S_False == <<"F", "a", "l", "s", "e">>
S_FALSE == <<"F", "A", "L", "S", "E">>
S_FalseSpace == <<"F", "a", "l", "s", "e", " ">>

\* a plain row, and the rows that differ from it in one column
PlainRow == JoinedRow(KeyA, NullStr, S_false, Null, Null, NullStr, NullStr)
GridRowDomain ==
    {PlainRow}
    \cup {JoinedRow(KeyA, f, S_false, Null, Null, NullStr, NullStr) :
            f \in {<<"b">>, <<"b", ",", "a">>, <<"a", ",", "a">>}}
    \cup {JoinedRow(KeyA, NullStr, c, Null, Null, NullStr, NullStr) :
            c \in {NullStr, <<>>, S_False, S_FALSE, S_FalseSpace, S_true}}
    \cup {JoinedRow(KeyA, NullStr, S_false, n[1], n[2], NullStr, NullStr) :
            n \in {<<50, 100>>, <<100, 50>>, <<NaN, 100>>, <<50, 0>>, <<50, Null>>}}
    \cup {JoinedRow(KeyA, NullStr, S_false, Null, Null, a, NullStr) :
            a \in {S_false, S_true}}
    \cup {JoinedRow(KeyA, NullStr, S_false, Null, Null, NullStr, c) :
            c \in {S_true, S_false}}

\* Array.prototype.filter
Filter(rows, keep(_)) == SelectSeq(rows, keep)
\* the number of elements of s that satisfy test
Count(s, test(_)) == Cardinality({i \in 1..Len(s) : test(s[i])})

\* a.localeCompare(b) < 0 for tokens of lower-case letters, digits and spaces
CharPos(c) == CASE c = " " -> 0 [] c = "a" -> 1 [] c = "b" -> 2 [] OTHER -> 3
RECURSIVE localeLess(_, _)
localeLess(a, b) ==
    IF b = <<>> THEN FALSE
    ELSE IF a = <<>> THEN TRUE
    ELSE \/ CharPos(Head(a)) < CharPos(Head(b))
         \/ (CharPos(Head(a)) = CharPos(Head(b)) /\ localeLess(Tail(a), Tail(b)))

\* the keys of a Map, sorted with localeCompare
RECURSIVE sortedKeys(_)
sortedKeys(S) ==
    IF S = {} THEN <<>>
    ELSE LET k == CHOOSE x \in S : \A y \in S \ {x} : localeLess(x, y)
         IN  <<k>> \o sortedKeys(S \ {k})

\* tabGroups, loop body: val === "false" (the row is counted under anomaly:false)
countedNoAnomaly(row) ==
    LET val == IF row.confidence_anomaly # NullStr
               THEN toLowerCase(String(row.confidence_anomaly)) ELSE NullStr
    IN  val = S_false

\* !isNaN(auto) && !isNaN(cap) && cap > 0 && auto < cap
underCap(row) ==
    LET auto == IF row.automated_uncapped_slam_forecast # Null
                THEN parseFloat(row.automated_uncapped_slam_forecast) ELSE NaN
        cap == IF row.atrops_soft_cap # Null THEN parseFloat(row.atrops_soft_cap) ELSE NaN
    IN  ~isNaN(auto) /\ ~isNaN(cap) /\ cap > 0 /\ auto < cap

\* flagCounts.get(f) after the loop: one per occurrence of f in a row's _flags
flagCount(data, f) ==
    LET occ(row) == Cardinality({k \in 1..Len(row._flags) : row._flags[k] = f})
        sum[n \in 0..Len(data)] == IF n = 0 THEN 0 ELSE sum[n - 1] + occ(data[n])
    IN  sum[Len(data)]

Tab(value, count) == [value |-> value, count |-> count]

\* tabGroups: the facets as {value, count}, in the order of the returned array
\* (the label of a facet is fixed by its value)
tabGroupsOf(data) ==
    LET flags == UNION {{row._flags[k] : k \in 1..Len(row._flags)} :
                          row \in {data[i] : i \in 1..Len(data)}}
        flagKeys == sortedKeys(flags)
        falseCount == Count(data, countedNoAnomaly)
        flaggedCount == Len(data) - falseCount
        underCapCount == Count(data, underCap)
        hasSetupData == \E i \in 1..Len(data) : data[i].setup_confidence_anomaly # NullStr
        setupAnomalyCount ==
            Count(data, LAMBDA row :
                /\ row.setup_confidence_anomaly # NullStr
                /\ toLowerCase(String(row.setup_confidence_anomaly)) # S_false)
        confChangedCount == Count(data, LAMBDA row : row.confidence_changed = S_true)
    IN  << Tab(S_all, Len(data)) >>
        \o [k \in 1..Len(flagKeys) |->
               Tab(S_flagPrefix \o flagKeys[k], flagCount(data, flagKeys[k]))]
        \o (IF underCapCount > 0 THEN << Tab(S_underCap, underCapCount) >> ELSE <<>>)
        \o (IF flaggedCount > 0 THEN << Tab(S_anomalyFlagged, flaggedCount) >> ELSE <<>>)
        \o (IF falseCount > 0 THEN << Tab(S_anomalyFalse, falseCount) >> ELSE <<>>)
        \o (IF hasSetupData /\ setupAnomalyCount > 0
            THEN << Tab(S_setupAnomaly, setupAnomalyCount) >> ELSE <<>>)
        \o (IF hasSetupData /\ confChangedCount > 0
            THEN << Tab(S_confChanged, confChangedCount) >> ELSE <<>>)

\* activeTab.startsWith("flag:")
startsWithFlag(tab) ==
    Len(tab) >= Len(S_flagPrefix) /\ SubSeq(tab, 1, Len(S_flagPrefix)) = S_flagPrefix

\* filteredData for a given activeTab
filteredDataOf(data, tab) ==
    IF tab = S_all THEN data
    ELSE IF startsWithFlag(tab)
    THEN LET flag == SubSeq(tab, 6, Len(tab))
         IN  Filter(data, LAMBDA r : \E k \in 1..Len(r._flags) : r._flags[k] = flag)
    ELSE IF tab = S_anomalyFlagged
    THEN Filter(data, LAMBDA r : toLowerCase(String(r.confidence_anomaly)) # S_false)
    ELSE IF tab = S_anomalyFalse
    THEN Filter(data, LAMBDA r : toLowerCase(String(r.confidence_anomaly)) = S_false)
    ELSE IF tab = S_underCap
    THEN Filter(data, underCap)
    ELSE IF tab = S_setupAnomaly
    THEN Filter(data, LAMBDA r :
             /\ r.setup_confidence_anomaly # NullStr
             /\ toLowerCase(String(r.setup_confidence_anomaly)) # S_false)
    ELSE IF tab = S_confChanged
    THEN Filter(data, LAMBDA r : r.confidence_changed = S_true)
    ELSE Filter(data, LAMBDA r : r.tab_group = tab)

\* useMemo: the facets and the rows shown
tabGroups == tabGroupsOf(gridData)
filteredData == filteredDataOf(gridData, activeTab)

InitTabs ==
    /\ gridData \in SeqsUpTo(GridRowDomain, MaxGridRows)
    /\ pbaData = <<>>
    /\ loading = FALSE
    /\ error = Nil
    /\ activeTab = S_all
    /\ selectedGridKey = Nil
    /\ loads = <<>>
    /\ NoSql
    /\ NoCsv
    /\ NoFs
    /\ NoEv
    /\ pc = "done"

\* onClick of a tab button: setActiveTab(tg.value)
setActiveTab(k) ==
    /\ ~loading /\ error = Nil
    /\ activeTab' = tabGroups[k].value
    /\ UNCHANGED <<gridData, pbaData, loading, error, selectedGridKey, loads>>
    /\ UNCHANGED sqlVars
    /\ UNCHANGED csvVars
    /\ UNCHANGED fsVars
    /\ UNCHANGED evVars
    /\ UNCHANGED pc

NextTabs == \E k \in 1..Len(tabGroups) : setActiveTab(k)

SpecTabs == InitTabs /\ [][NextTabs]_vars

\* v, lower-cased, is the literal "false": v is f, a, l, s, e in either case
IsLiteralFalse(v) ==
    /\ v # NullStr
    /\ Len(v) = 5
    /\ v[1] \in {"f", "F"} /\ v[2] \in {"a", "A"} /\ v[3] \in {"l", "L"}
    /\ v[4] \in {"s", "S"} /\ v[5] \in {"e", "E"}

TabCount(value) ==
    LET at == {k \in 1..Len(tabGroups) : tabGroups[k].value = value}
    IN  IF at = {} THEN 0 ELSE tabGroups[CHOOSE k \in at : TRUE].count

\* C8: a row is counted and filtered as not anomalous exactly when its
\* confidence_anomaly, lower-cased, is the literal "false"; every other value
\* (null, "", "False ", "true") is counted and filtered as anomalous; the
\* counting rule and the filter rule agree.
C8_AnomalousUnlessLiteralFalse ==
    LET notAnomalous == SelectSeq(gridData, LAMBDA r : IsLiteralFalse(r.confidence_anomaly))
        anomalous == SelectSeq(gridData, LAMBDA r : ~IsLiteralFalse(r.confidence_anomaly))
    IN  /\ TabCount(S_anomalyFalse) = Len(notAnomalous)
        /\ TabCount(S_anomalyFlagged) = Len(anomalous)
        /\ filteredDataOf(gridData, S_anomalyFalse) = notAnomalous
        /\ filteredDataOf(gridData, S_anomalyFlagged) = anomalous
        /\ activeTab = S_anomalyFalse => filteredData = notAnomalous
        /\ activeTab = S_anomalyFlagged => filteredData = anomalous

\* C8 witness: the "not anomalous" facet is selected and shows a row whose value
\* is "False" or "FALSE" while a "False " row is left out
C8_Witness ==
    /\ activeTab = S_anomalyFalse
    /\ Len(gridData) = 2
    /\ Len(filteredData) = 1
    /\ filteredData[1].confidence_anomaly \in {S_False, S_FALSE}
    /\ \E i \in 1..2 : gridData[i].confidence_anomaly = S_FalseSpace

\* C10: the count of every facet equals the number of rows the filter returns
\* when that facet is selected, and "All" returns the full row set.
C10_CountEqualsFilteredRows ==
    /\ \A k \in 1..Len(tabGroups) :
           tabGroups[k].value = activeTab => tabGroups[k].count = Len(filteredData)
    /\ activeTab = S_all => filteredData = gridData

\* ----------------------------------------------------------- parseCsvLine
\* Text is a sequence of one-character strings; Q is the double quote.

Q == "\""
MaxFieldLen == 3
MaxNeighbours == 1

\* the writer of joined.csv: a field holding a comma or a quote is wrapped in
\* quotes with every quote doubled; the fields are joined with commas
RECURSIVE doubleQuotes(_)
doubleQuotes(v) ==
    IF v = <<>> THEN <<>>
    ELSE (IF Head(v) = Q THEN <<Q, Q>> ELSE <<Head(v)>>) \o doubleQuotes(Tail(v))
encodeField(v) ==
    IF \E i \in 1..Len(v) : v[i] \in {",", Q}
    THEN <<Q>> \o doubleQuotes(v) \o <<Q>>
    ELSE v
RECURSIVE encodeRow(_)
encodeRow(row) ==
    IF Len(row) = 1 THEN encodeField(row[1])
    ELSE encodeField(Head(row)) \o <<",">> \o encodeRow(Tail(row))

\* mutant of scanQuoted: the first quote ends the field, doubled or not
RECURSIVE scanQuoted_noEscape(_, _, _)
scanQuoted_noEscape(line, j, value) ==
    IF j > Len(line) THEN <<value, j>>
    ELSE IF line[j] = Q THEN <<value, j + 1>>
    ELSE scanQuoted_noEscape(line, j + 1, Append(value, line[j]))

\* the inner while loop from position j (1-based) with the value read so far:
\* <<value, j>> when the loop ends
RECURSIVE scanQuoted(_, _, _)
scanQuoted(line, j, value) ==
    IF j > Len(line) THEN <<value, j>>
    ELSE IF line[j] = Q
    THEN IF j + 1 <= Len(line) /\ line[j + 1] = Q
         THEN scanQuoted(line, j + 2, Append(value, Q))
         ELSE <<value, j + 1>>
    ELSE scanQuoted(line, j + 1, Append(value, line[j]))

\* the outer while loop from position i (1-based) with the fields pushed so far
RECURSIVE parseFrom(_, _, _)
parseFrom(line, i, fields) ==
    IF i > Len(line) THEN fields
    ELSE IF line[i] = Q
    THEN LET r == scanQuoted(line, i + 1, <<>>)
         IN  parseFrom(line, r[2] + 1, Append(fields, r[1]))
    ELSE LET commas == {k \in i..Len(line) : line[k] = ","}
         IN  IF commas = {}
             THEN Append(fields, SubSeq(line, i, Len(line)))
             ELSE LET comma == CHOOSE k \in commas : \A m \in commas : k <= m
                  IN  parseFrom(line, comma + 1, Append(fields, SubSeq(line, i, comma - 1)))

parseCsvLine(line) == parseFrom(line, 1, <<>>)

\* the fields of a row: a field with an embedded comma and a quote, between
\* plain (or empty) neighbours
CsvChars == {"x", ",", Q}
QuotedFields ==
    {v \in UNION {[1..n -> CsvChars] : n \in 2..MaxFieldLen} :
        /\ \E i \in 1..Len(v) : v[i] = ","
        /\ \E i \in 1..Len(v) : v[i] = Q}
PlainFields == {<<>>, <<"x">>, <<"x", "y">>, <<"x", ",">>}
CsvRows ==
    {b \o <<q>> \o a : b \in SeqsUpTo(PlainFields, MaxNeighbours),
                       q \in QuotedFields,
                       a \in SeqsUpTo(PlainFields, MaxNeighbours)}

InitCsv ==
    /\ csvRow \in CsvRows
    /\ csvLine = encodeRow(csvRow)
    /\ csvFields = <<>>
    /\ NoUi
    /\ NoSql
    /\ NoFs
    /\ NoEv
    /\ pc = "start"

\* parseCsvToJson: const values = parseCsvLine(line)
ParseLine ==
    /\ pc = "start"
    /\ pc' = "done"
    /\ csvFields' = parseCsvLine(csvLine)
    /\ UNCHANGED <<csvRow, csvLine>>
    /\ UNCHANGED uiVars
    /\ UNCHANGED sqlVars
    /\ UNCHANGED fsVars
    /\ UNCHANGED evVars

NextCsv == ParseLine

SpecCsv == InitCsv /\ [][NextCsv]_vars

\* C9 as claimed: the quoted field comes back with its original value and the
\* fields before and after it come back unchanged at their positions.
C9_RoundTripAllFields == pc = "done" => csvFields = csvRow

\* C9 as amended: the same, except that an empty last field of the row is
\* missing from the returned list.
C9_RoundTripButEmptyLastField ==
    pc = "done" =>
        csvFields = IF csvRow[Len(csvRow)] = <<>>
                    THEN SubSeq(csvRow, 1, Len(csvRow) - 1)
                    ELSE csvRow

\* C9 witness: a row of three fields was parsed, its middle field holding a
\* comma and a quote, and the three values came back
C9_Witness ==
    /\ pc = "done"
    /\ Len(csvRow) = 3
    /\ \E i \in 1..Len(csvRow[2]) : csvRow[2][i] = ","
    /\ \E i \in 1..Len(csvRow[2]) : csvRow[2][i] = Q
    /\ csvRow[3] # <<>>
    /\ Len(csvLine) > Len(csvRow[1]) + Len(csvRow[2]) + Len(csvRow[3]) + 4
    /\ csvFields = csvRow

\* ------------------------------------------------------------ facet list

\* the tokens that occur in some loaded row's parsed flag list
FlagTokens ==
    UNION {{gridData[i]._flags[k] : k \in 1..Len(gridData[i]._flags)} :
              i \in 1..Len(gridData)}
\* the flag facets of the list, in list order
FlagFacets == SelectSeq(tabGroups, LAMBDA t : startsWithFlag(t.value))
RowsCarrying(token) ==
    Cardinality({i \in 1..Len(gridData) :
                    \E k \in 1..Len(gridData[i]._flags) : gridData[i]._flags[k] = token})

\* C11: the facet list has exactly one flag facet per distinct flag token of the
\* loaded rows and none for other tokens, the flag facets are in alphabetical
\* order of token, and each one's count is the number of rows carrying the token.
C11_FlagFacetPerTokenCountsRows ==
    /\ {FlagFacets[k].value : k \in 1..Len(FlagFacets)}
           = {S_flagPrefix \o t : t \in FlagTokens}
    /\ Len(FlagFacets) = Cardinality(FlagTokens)
    /\ \A j, k \in 1..Len(FlagFacets) :
           j < k => localeLess(SubSeq(FlagFacets[j].value, 6, Len(FlagFacets[j].value)),
                               SubSeq(FlagFacets[k].value, 6, Len(FlagFacets[k].value)))
    /\ \A k \in 1..Len(FlagFacets) :
           FlagFacets[k].count
               = RowsCarrying(SubSeq(FlagFacets[k].value, 6, Len(FlagFacets[k].value)))

\* ------------------------------------- the dashboard with severity facets
\* The variant of the dashboard whose rows carry a severity (number | null) and
\* whose facet list has the two anomaly facets, Conf. != and one facet per
\* severity.

S_sevPrefix == <<"s", "e", "v", ":">>

Digits == <<"0", "1", "2", "3", "4", "5", "6", "7", "8", "9">>
\* `${sev}` of a non-negative integer
RECURSIVE numToString(_)
numToString(n) ==
    IF n < 10 THEN <<Digits[n + 1]>>
    ELSE numToString(n \div 10) \o <<Digits[(n % 10) + 1]>>
\* parseInt(s, 10) of a text without sign or leading blanks: the number written
\* by its leading digits, NaN when it starts with no digit
IsDigit(c) == \E d \in 1..10 : Digits[d] = c
DigitValue(c) == (CHOOSE d \in 1..10 : Digits[d] = c) - 1
RECURSIVE parseIntFrom(_, _)
parseIntFrom(s, acc) ==
    IF s = <<>> \/ ~IsDigit(Head(s)) THEN acc
    ELSE parseIntFrom(Tail(s), 10 * acc + DigitValue(Head(s)))
parseInt(s) ==
    IF s = <<>> \/ ~IsDigit(Head(s)) THEN NaN ELSE parseIntFrom(s, 0)

WithSeverity(row, sev) == [row EXCEPT !.severity = sev]

\* the keys of sevCounts in insertion order: each severity at its first row
RECURSIVE sevKeys(_)
sevKeys(data) ==
    IF data = <<>> THEN <<>>
    ELSE LET front == sevKeys(SubSeq(data, 1, Len(data) - 1))
             sev == data[Len(data)].severity
         IN  IF sev = Null \/ \E k \in 1..Len(front) : front[k] = sev
             THEN front ELSE Append(front, sev)

\* mutant of sortedSevKeys: the severities stay in insertion order
sortedSevKeys_unsorted(data) == sevKeys(data)

\* Array.from(sevCounts.entries()).sort(([a], [b]) => a - b)
sortedSevKeys(data) ==
    LET keys == sevKeys(data)
        order == StableOrder(keys)
    IN  [p \in 1..Len(keys) |-> keys[order[p]]]

\* mutant of allTab: All counts only the rows that are not anomalous
allTab_notAnomalous(data) == Tab(S_all, Count(data, countedNoAnomaly))

\* { label: "All", value: "all", count: gridData.length }
allTab(data) == Tab(S_all, Len(data))

\* tabGroups of the variant: the facets as {value, count}
tabGroupsOf_part003(data) ==
    LET noAnomalyCount == Count(data, countedNoAnomaly)
        anomalyCount == Len(data) - noAnomalyCount
        confChangedCount == Count(data, LAMBDA row : row.confidence_changed = S_true)
        sevs == sortedSevKeys(data)
    IN  << allTab(data),
           Tab(S_anomalyFlagged, anomalyCount),
           Tab(S_anomalyFalse, noAnomalyCount) >>
        \o (IF confChangedCount > 0 THEN << Tab(S_confChanged, confChangedCount) >> ELSE <<>>)
        \o [k \in 1..Len(sevs) |->
               Tab(S_sevPrefix \o numToString(sevs[k]),
                   Count(data, LAMBDA row : row.severity = sevs[k]))]

\* activeTab.startsWith("sev:")
startsWithSev(tab) ==
    Len(tab) >= Len(S_sevPrefix) /\ SubSeq(tab, 1, Len(S_sevPrefix)) = S_sevPrefix

\* filteredData of the variant
filteredDataOf_part003(data, tab) ==
    IF tab = S_all THEN data
    ELSE IF tab = S_anomalyFlagged
    THEN Filter(data, LAMBDA r : toLowerCase(String(r.confidence_anomaly)) # S_false)
    ELSE IF tab = S_anomalyFalse
    THEN Filter(data, LAMBDA r : toLowerCase(String(r.confidence_anomaly)) = S_false)
    ELSE IF tab = S_confChanged
    THEN Filter(data, LAMBDA r : r.confidence_changed = S_true)
    ELSE IF startsWithSev(tab)
    THEN LET sev == parseInt(SubSeq(tab, 5, Len(tab)))
         IN  Filter(data, LAMBDA r : ~isNaN(sev) /\ r.severity = sev)
    ELSE data

tabGroups_part003 == tabGroupsOf_part003(gridData)
filteredData_part003 == filteredDataOf_part003(gridData, activeTab)

\* the severity cells of joined.csv (an integer bucket) and what parseGridCsv
\* makes of them: obj.severity = parseInt(obj.severity, 10)
SeverityCells == {<<"1">>, <<"2">>, <<"1", "0">>}
Severities == {parseInt(c) : c \in SeverityCells}
SevRowDomain ==
    {WithSeverity(PlainRow, v) : v \in Severities \cup {Null}}
    \cup {WithSeverity(JoinedRow(KeyA, NullStr, c, Null, Null, NullStr, NullStr), 2) :
            c \in {NullStr, S_FALSE, S_true}}
    \cup {JoinedRow(KeyA, NullStr, S_false, Null, Null, a, c) :
            a \in {NullStr, S_true}, c \in {S_true, S_false}}

InitTabs3 ==
    /\ gridData \in SeqsUpTo(SevRowDomain, MaxGridRows)
    /\ pbaData = <<>>
    /\ loading = FALSE
    /\ error = Nil
    /\ activeTab = S_all
    /\ selectedGridKey = Nil
    /\ loads = <<>>
    /\ NoSql
    /\ NoCsv
    /\ NoFs
    /\ NoEv
    /\ pc = "done"

\* onClick of a tab button of the variant: setActiveTab(tg.value)
setActiveTab_part003(k) ==
    /\ ~loading /\ error = Nil
    /\ activeTab' = tabGroups_part003[k].value
    /\ UNCHANGED <<gridData, pbaData, loading, error, selectedGridKey, loads>>
    /\ UNCHANGED sqlVars
    /\ UNCHANGED csvVars
    /\ UNCHANGED fsVars
    /\ UNCHANGED evVars
    /\ UNCHANGED pc

NextTabs3 == \E k \in 1..Len(tabGroups_part003) : setActiveTab_part003(k)

SpecTabs3 == InitTabs3 /\ [][NextTabs3]_vars

\* some loaded row carries setup data
CarriesSetupData == \E i \in 1..Len(gridData) : gridData[i].setup_confidence_anomaly # NullStr
\* the setup-derived facets of a facet list are there only with setup data in
\* the rows and a count above zero
SetupFacetsOk(list) ==
    \A k \in 1..Len(list) :
        list[k].value \in {S_setupAnomaly, S_confChanged}
            => CarriesSetupData /\ list[k].count > 0

\* C12: the facets Setup Anomaly and Conf Changed appear in the facet list only
\* when some loaded row has a non-null setup_confidence_anomaly and the facet's
\* count is nonzero; with no such row neither appears, whatever the rows'
\* confidence_changed.
C12_SetupFacetsNeedSetupData ==
    SetupFacetsOk(tabGroups) /\ SetupFacetsOk(tabGroups_part003)

\* a facet with this value is in the list
HasFacet(list, value) == \E k \in 1..Len(list) : list[k].value = value
\* the anomaly facets of a facet list are there exactly for the buckets that
\* hold a row
AnomalyFacetsOk(list) ==
    /\ HasFacet(list, S_anomalyFlagged)
           <=> \E i \in 1..Len(gridData) : ~IsLiteralFalse(gridData[i].confidence_anomaly)
    /\ HasFacet(list, S_anomalyFalse)
           <=> \E i \in 1..Len(gridData) : IsLiteralFalse(gridData[i].confidence_anomaly)

\* C13: each of the two confidence-anomaly facets is in the facet list if and
\* only if some loaded row falls in its bucket; an empty bucket gives no facet,
\* also when no row is loaded.
C13_AnomalyFacetIffBucketNonEmpty ==
    AnomalyFacetsOk(tabGroups) /\ AnomalyFacetsOk(tabGroups_part003)

\* C14: for every loaded row set, the empty one included, the first facet of
\* the list is All and its count is the number of loaded rows.
C14_AllFirstWithTotal ==
    /\ tabGroups[1] = [value |-> S_all, count |-> Len(gridData)]
    /\ tabGroups_part003[1] = [value |-> S_all, count |-> Len(gridData)]

\* C14 witness: two rows are loaded, one of them anomalous, and both lists
\* start with All counting 2 ahead of other facets
C14_Witness ==
    /\ Len(gridData) = 2
    /\ \E i \in 1..2 : ~IsLiteralFalse(gridData[i].confidence_anomaly)
    /\ Len(tabGroups) > 1 /\ tabGroups[1].count = 2
    /\ Len(tabGroups_part003) > 3 /\ tabGroups_part003[1].count = 2

\* the severity facets of the variant's list, in list order
SevFacets == SelectSeq(tabGroups_part003, LAMBDA t : startsWithSev(t.value))
\* the distinct non-null severities of the loaded rows
SevsPresent == {gridData[i].severity : i \in 1..Len(gridData)} \ {Null}
\* the k-th smallest of them
KthSeverity(k) ==
    CHOOSE s \in SevsPresent : Cardinality({t \in SevsPresent : t < s}) = k - 1
RowsOfSeverity(s) == SelectSeq(gridData, LAMBDA r : r.severity = s)

\* C15: the facet list has one severity facet per distinct non-null severity of
\* the loaded rows, in ascending numeric order, and selecting the facet of
\* severity s shows exactly the rows whose severity is s.
C15_SeverityFacetsAscendingAndExact ==
    /\ Len(SevFacets) = Cardinality(SevsPresent)
    /\ \A j, k \in 1..Len(SevFacets) : j # k => SevFacets[j].value # SevFacets[k].value
    /\ \A k \in 1..Len(SevFacets) :
           /\ filteredDataOf_part003(gridData, SevFacets[k].value)
                  = RowsOfSeverity(KthSeverity(k))
           /\ SevFacets[k].count = Len(RowsOfSeverity(KthSeverity(k)))
           /\ activeTab = SevFacets[k].value
                  => filteredData_part003 = RowsOfSeverity(KthSeverity(k))

\* C15 witness: severity 10 was loaded ahead of severity 2, the facet of 2 stands
\* before the facet of 10, and the facet of 10 is selected and shows its row
C15_Witness ==
    /\ Len(gridData) = 2
    /\ gridData[1].severity = 10 /\ gridData[2].severity = 2
    /\ Len(SevFacets) = 2
    /\ activeTab = SevFacets[2].value
    /\ filteredData_part003 = <<gridData[1]>>

\* ------------------------------------------------------ reference markers

\* the rows of the selected key, and the marker series of the chart
KeyRows == IF selectedGridKey = Nil THEN <<>> ELSE filtered(pbaData, selectedGridKey)
MarkerSeries == SelectSeq(chartResult.traces, LAMBDA t : t.mode = "markers")
\* the place of an alternate forecast type in the order automated, weekly, vovi
MarkerPlace(name) ==
    CASE name = "auto fcst" -> 1 [] name = "weekly fcst" -> 2 [] name = "vovi fcst" -> 3
      [] OTHER -> 0
MarkerType(name) == MarkerTypes[MarkerPlace(name)]

\* C16: the chart has at most one reference-marker series per alternate forecast
\* type, also when the key has several rows of the type; each marker series has
\* exactly one (horizon, value) point, taken from a row of its type; the markers
\* come in the order automated, weekly, vovi.
C16_OneMarkerPerTypeInFixedOrder ==
    /\ \A k \in 1..Len(MarkerSeries) :
           /\ MarkerPlace(MarkerSeries[k].name) \in 1..3
           /\ Len(MarkerSeries[k].x) = 1 /\ Len(MarkerSeries[k].y) = 1
           /\ \E i \in 1..Len(KeyRows) :
                  /\ KeyRows[i].pba_type = MarkerType(MarkerSeries[k].name)
                  /\ KeyRows[i].pba_dhm_horizon = MarkerSeries[k].x[1]
                  /\ KeyRows[i].pba_scheduled = MarkerSeries[k].y[1]
    /\ \A j, k \in 1..Len(MarkerSeries) :
           j < k => MarkerPlace(MarkerSeries[j].name) < MarkerPlace(MarkerSeries[k].name)

\* C16 witness: the selected key has two vp_automated rows and a vp_vovi row, in
\* this order of types reversed, and the chart has the two markers
C16_Witness ==
    /\ selectedGridKey = KeyA
    /\ Len(pbaData) = 3
    /\ pbaData[1].pba_type = "vp_vovi"
    /\ pbaData[2].pba_type = "vp_automated" /\ pbaData[3].pba_type = "vp_automated"
    /\ pbaData[2] # pbaData[3]
    /\ Len(MarkerSeries) = 2
    /\ MarkerSeries[1].name = "auto fcst" /\ MarkerSeries[2].name = "vovi fcst"

\* ---------------------------------------------------------- emission order

\* the place of a series in the fixed emission order
EmissionPlace(t) ==
    CASE t.mode = "markers" -> 14 + MarkerPlace(t.name)
      [] t.mode = "lines" /\ t.name = "sch" -> 1
      [] t.mode = "lines" /\ t.name = "slm" -> 2
      [] t.mode = "lines" /\ t.name = "cap" -> 3
      [] t.mode = "lines" /\ t.name = "cap (hard)" -> 4
      [] t.mode = "lines" /\ t.name = "p10-p90" /\ t.fill = "none" -> 5
      [] t.mode = "lines" /\ t.name = "p10-p90" /\ t.fill = "tonexty" -> 6
      [] t.mode = "lines" /\ t.name = "p30-p70" /\ t.fill = "none" -> 7
      [] t.mode = "lines" /\ t.name = "p30-p70" /\ t.fill = "tonexty" -> 8
      [] t.mode = "lines" /\ t.name = "median" -> 9
      [] t.mode = "lines" /\ t.name = "median adj" -> 10
      [] t.mode = "lines" /\ t.name = "match-sch" -> 11
      [] t.mode = "lines" /\ t.name = "match-slm" -> 12
      [] t.mode = "lines" /\ t.name = "match-cap" -> 13
      [] t.mode = "lines" /\ t.name = "match-cap (hard)" -> 14
      [] OTHER -> 0
HasRowsOfType(type) == \E i \in 1..Len(KeyRows) : KeyRows[i].pba_type = type

\* C17: the series of the chart come in one fixed order: the target group
\* (scheduled, slammed, soft cap, hard cap, then outer band lower and upper, inner
\* band lower and upper, median, median-adjusted), then the match group
\* (scheduled, slammed, soft cap, hard cap), then the reference markers; a group
\* without rows contributes no series and the others keep their order.
C17_FixedEmissionOrder ==
    LET traces == chartResult.traces
        place == [k \in 1..Len(traces) |-> EmissionPlace(traces[k])]
        emitted == {place[k] : k \in 1..Len(traces)}
    IN  /\ \A k \in 1..Len(place) : place[k] \in 1..17
        /\ \A j, k \in 1..Len(place) : j < k => place[j] < place[k]
        /\ \A q \in 1..4 : q \in emitted <=> HasRowsOfType("target")
        /\ \A q \in 5..10 : q \in emitted => HasRowsOfType("target")
        /\ \A q \in 5..10 : q \in emitted <=> 5 \in emitted
        /\ \A q \in 11..14 : q \in emitted <=> HasRowsOfType("match")

\* C17 witness: a key with a target row that has quantiles, a match row and a
\* marker row, loaded in the reverse order, gives all fifteen series
C17_Witness ==
    /\ Len(KeyRows) = 3
    /\ isMarker(KeyRows[1]) /\ KeyRows[2].pba_type = "match"
    /\ KeyRows[3].pba_type = "target"
    /\ Len(chartResult.traces) = 15
    /\ EmissionPlace(chartResult.traces[10]) = 10
    /\ EmissionPlace(chartResult.traces[11]) = 11

\* ------------------------------------------------------------ cap legend

\* the series at an emission place, when the chart has one
SeriesAt(traces, q) == {traces[k] : k \in {k \in 1..Len(traces) : EmissionPlace(traces[k]) = q}}

\* scheduled, slammed, soft cap, hard cap of a group are at places b+1 .. b+4
CapLegendOk(traces, b, group) ==
    /\ \A t \in SeriesAt(traces, b + 3) : t.legendgroup = group /\ t.showlegend
    /\ \A t \in SeriesAt(traces, b + 4) : t.legendgroup = group /\ ~t.showlegend
    /\ \A t \in SeriesAt(traces, b + 1) \cup SeriesAt(traces, b + 2) : t.legendgroup # group
    /\ SeriesAt(traces, b + 1) # {}
           => SeriesAt(traces, b + 3) # {} /\ SeriesAt(traces, b + 4) # {}

\* C18: in each group that has rows, the soft-cap and the hard-cap series carry
\* one legend group ("cap" for target, "match-cap" for match) that differs from
\* the legend groups of the scheduled and slammed series, and only the soft-cap
\* series is shown in the legend.
C18_CapsShareLegendGroup ==
    LET traces == chartResult.traces
    IN  /\ CapLegendOk(traces, 0, "cap")
        /\ CapLegendOk(traces, 10, "match-cap")
        /\ HasRowsOfType("target") => SeriesAt(traces, 3) # {}
        /\ HasRowsOfType("match") => SeriesAt(traces, 13) # {}

\* C18 witness: a key with a target and a match row has the four cap series,
\* the hard caps hidden from the legend
C18_Witness ==
    /\ HasRowsOfType("target") /\ HasRowsOfType("match")
    /\ \E t \in SeriesAt(chartResult.traces, 4) : t.legendgroup = "cap" /\ ~t.showlegend
    /\ \E t \in SeriesAt(chartResult.traces, 13) : t.legendgroup = "match-cap" /\ t.showlegend
    /\ \E t \in SeriesAt(chartResult.traces, 14) : t.legendgroup = "match-cap" /\ ~t.showlegend

\* ------------------------------------------- the routes and the dashboard
\* data/contexts holds one directory per run; a directory is described by
\* whether its name includes "forecast_" and which of the two files it holds.
\* Directory names sort in creation order, so contexts is in name order.

MaxContexts == 2

ContextDirs == [forecast : BOOLEAN, joined : BOOLEAN, visual : BOOLEAN]

\* findLatestFile: the directories whose name includes "forecast_", in reverse
\* name order, the first that holds the file; 0 for null
existsSync(dir, filename) ==
    IF filename = "joined.csv" THEN dir.joined ELSE dir.visual
findLatestFile(dirs, filename) ==
    LET hits == {d \in 1..Len(dirs) : dirs[d].forecast /\ existsSync(dirs[d], filename)}
    IN  IF hits = {} THEN 0 ELSE CHOOSE d \in hits : \A e \in hits : e <= d

\* the rows of the joined.csv / visual.json written by run d
JoinedOfRun(d) == [i \in 1..d |-> PlainRow]
VisualOfRun(d) == [i \in 1..d |-> PbaRow(KeyA, "target", "1d06h", 3, Null, Null)]

\* GET of the grid-data route: 404 with an error object, or the rows as JSON
gridDataGET(dirs) ==
    LET csvPath == findLatestFile(dirs, "joined.csv")
    IN  IF csvPath = 0 THEN NotOk ELSE OkResp(TRUE, JoinedOfRun(csvPath))

\* GET of the visual-data route
visualDataGET(dirs) ==
    LET jsonPath == findLatestFile(dirs, "visual.json")
    IN  IF jsonPath = 0 THEN NotOk ELSE OkResp(TRUE, VisualOfRun(jsonPath))

\* a run creates its context directory
CreateContext(dir) ==
    /\ Len(contexts) < MaxContexts
    /\ contexts' = Append(contexts, dir)
    /\ UNCHANGED evVars
    /\ UNCHANGED uiVars
    /\ UNCHANGED sqlVars
    /\ UNCHANGED csvVars
    /\ UNCHANGED pc

\* both routes answer the fetches of load l
RoutesAnswer(l) == FetchesSettle(l, gridDataGET(contexts), visualDataGET(contexts))

NextServe ==
    \/ \E dir \in ContextDirs : CreateContext(dir)
    \/ StartLoad
    \/ \E l \in 1..Len(loads) : RoutesAnswer(l)
    \/ \E l \in 1..Len(loads) : GridBodyRead(l)
    \/ \E l \in 1..Len(loads) : PbaBodyRead(l)

SpecServe == InitLoad /\ [][NextServe]_vars

\* C19: when no context directory holds joined.csv (the grid-data route answered
\* 404), the finished load leaves the error state set; when only visual.json is
\* absent, the error state stays null.
C19_AbsentJoinedIsHardFailure ==
    \A l \in 1..Len(loads) :
        Settled(l) =>
            /\ loads[l].gridResp = NotOk => error # Nil
            /\ (fulfilledOk(loads[l].gridResp) /\ loads[l].pbaResp = NotOk) => error = Nil

\* ------------------------------------------------------ superseded loads

\* load l takes a step
StepOf(l) == l <= Len(loads') /\ loads'[l].pc # loads[l].pc

\* a load that was cancelled before the step writes none of the four states
CancelledLoadWritesNothing ==
    \A l \in 1..Len(loads) :
        (loads[l].cancelled /\ StepOf(l))
            => UNCHANGED <<gridData, pbaData, error, loading>>

\* C20: a load superseded while in flight never writes gridData, pbaData, error
\* or loading after its cancellation, whether it is cancelled before the fetches
\* settle or between the fetches settling and the bodies being parsed.
C20_SupersededLoadNeverWrites == [][CancelledLoadWritesNothing]_vars

\* ------------------------------------------------------ points of a group

\* the rows of a group of the selected key, in input order
GroupOf(type) == SelectSeq(KeyRows, LAMBDA r : r.pba_type = type)

\* the series at places b+1 .. b+n are laid out over one arrangement of the
\* group's rows whose ranks do not decrease: each has one point per row, x is
\* the rows' label, and the scheduled and slammed series carry the rows' values
GroupPointsOk(traces, type, places) ==
    LET rows == GroupOf(type)
        n == Len(rows)
        mine == {k \in 1..Len(traces) : EmissionPlace(traces[k]) \in places}
    IN  \E f \in Perms(n) :
            /\ \A i, j \in 1..n :
                   i < j => rows[f[i]].pba_horizon_rank <= rows[f[j]].pba_horizon_rank
            /\ \A k \in mine :
                   /\ Len(traces[k].x) = n /\ Len(traces[k].y) = n
                   /\ \A i \in 1..n : traces[k].x[i] = rows[f[i]].pba_dhm_horizon
                   /\ traces[k].name \in {"sch", "match-sch"}
                          => \A i \in 1..n : traces[k].y[i] = rows[f[i]].pba_scheduled
                   /\ traces[k].name \in {"slm", "match-slm"}
                          => \A i \in 1..n : traces[k].y[i] = rows[f[i]].pba_slammed

\* C21: within each group (target, match) the points of every series follow the
\* group's rows in non-decreasing pba_horizon_rank, whatever the order of the
\* input rows and of their labels, and every series of the group has one point
\* per row of the group, x and y of equal length.
C21_GroupPointsInRankOrder ==
    LET traces == chartResult.traces
    IN  /\ GroupPointsOk(traces, "target", 1..10)
        /\ GroupPointsOk(traces, "match", 11..14)

\* C21 witness: the target rows arrive with rank 5 ahead of rank 3, the rank 3
\* row carrying the lexically later label, and the scheduled series starts with
\* the rank 3 row
C21_Witness ==
    /\ Len(GroupOf("target")) = 2
    /\ GroupOf("target")[1].pba_horizon_rank = 5
    /\ GroupOf("target")[1].pba_dhm_horizon = "1d06h"
    /\ GroupOf("target")[2].pba_horizon_rank = 3
    /\ GroupOf("target")[2].pba_dhm_horizon = "2d12h"
    /\ chartResult.traces[1].x = <<"2d12h", "1d06h">>
    /\ chartResult.traces[1].y = <<103, 105>>

\* ------------------------------------------- delimited text, both parsers

\* headers.forEach((h, i) => { const v = values[i] ?? ""; obj[h] = v === "" ? null : v })
\* the object as the sequence of its values in header order
rowObject(values, nHeaders) ==
    [i \in 1..nHeaders |->
        LET v == IF i <= Len(values) THEN values[i] ELSE <<>>
        IN  IF v = <<>> THEN NullStr ELSE v]

\* parseCsvToJson, one data line: parseCsvLine(line) under the headers
parseCsvToJsonRow(line, nHeaders) == rowObject(parseCsvLine(line), nHeaders)
\* parseGridCsv, one data line: line.split(",") under the headers
parseGridCsvRow(line, nHeaders) == rowObject(split(line), nHeaders)

\* C22: for a row of delimited text with a quoted field that contains a comma,
\* parseGridCsv gives the field as one value of its column with the wrapping
\* quotes removed, keeps every later column under its header, and gives the
\* same row as parseCsvToJson gives for the same text.
C22_GridCsvHonoursQuoting ==
    pc = "done" =>
        /\ parseGridCsvRow(csvLine, Len(csvRow)) = rowObject(csvFields, Len(csvRow))
        /\ parseGridCsvRow(csvLine, Len(csvRow)) = rowObject(csvRow, Len(csvRow))

\* -------------------------------------------------------- a failed load
\* gridBefore and pbaBefore of a load record the datasets when the load began.

\* C23: when the current load has ended with the error state set, gridData and
\* pbaData both hold the values they had when that load began.
C23_FailedLoadKeepsBothDatasets ==
    \A l \in 1..Len(loads) :
        (Settled(l) /\ error # Nil)
            => gridData = loads[l].gridBefore /\ pbaData = loads[l].pbaBefore

\* ------------------------------------------------------------ recomputing

\* a click leaves the telemetry array as it was, and the chart of the key it
\* selects is what buildTraces gives for the array as it was before the click
RecomputedUnchanged ==
    /\ pbaData' = pbaData
    /\ selectedGridKey' # Nil
           => LET before == buildTraces(pbaData, selectedGridKey')
                  after == buildTraces(pbaData', selectedGridKey')
              IN  /\ after.categoryOrder = before.categoryOrder
                  /\ after.traces = before.traces

C25_EveryLabelInCategoryOrder ==
    LET traces == chartResult.traces
        order == chartResult.categoryOrder
        domain == {order[k] : k \in 1..Len(order)}
    IN  \A i \in 1..Len(traces) :
            \A j \in 1..Len(traces[i].x) : traces[i].x[j] \in domain

\* The same statement restricted to the series of the target and match
\* groups: it is the marker series alone that leave the domain.
C25_GroupLabelsInCategoryOrder ==
    LET traces == chartResult.traces
        order == chartResult.categoryOrder
        domain == {order[k] : k \in 1..Len(order)}
    IN  \A i \in 1..Len(traces) :
            traces[i].mode # "markers"
                => \A j \in 1..Len(traces[i].x) : traces[i].x[j] \in domain


\* ---------------------------------------------------------------------
\* the run (context directory) whose file a served body is: run d writes
\* d rows (JoinedOfRun, VisualOfRun)
RunOfBody(body) == Len(body)

\* C26: the joined dataset served by the grid-data route and the telemetry
\* dataset served by the visual-data route come from the same context
\* directory, also when the newest directory holds only one of the files.
C26_DatasetsFromSameRun ==
    \A l \in 1..Len(loads) :
        (fulfilledOk(loads[l].gridResp) /\ fulfilledOk(loads[l].pbaResp))
            => RunOfBody(loads[l].gridResp.body) = RunOfBody(loads[l].pbaResp.body)


\* ------------------------------------------------- facets across reloads
\* The dashboard with its loads and its tab buttons: activeTab is a state of
\* its own (useState "all"), written by setActiveTab alone and by no load.

NextView ==
    \/ StartLoad
    \/ \E l \in 1..Len(loads) : \E g \in GridResponses : \E p \in PbaResponses :
           FetchesSettle(l, g, p)
    \/ \E l \in 1..Len(loads) : GridBodyRead(l)
    \/ \E l \in 1..Len(loads) : PbaBodyRead(l)
    \/ \E k \in 1..Len(tabGroups) : setActiveTab(k)

SpecView == InitLoad /\ [][NextView]_vars

\* C27: whenever the tabs are shown, the active facet key is a key of the
\* current facet list and the number of rows shown equals the count displayed
\* on the active facet, also after a reload whose data no longer produces the
\* active facet.
C27_ActiveFacetInCurrentList ==
    (~loading /\ error = Nil)
        => \E k \in 1..Len(tabGroups) :
               /\ tabGroups[k].value = activeTab
               /\ tabGroups[k].count = Len(filteredData)


\* ------------------------------------------------------------- parseFlags
\* The rows of a JSON body as loadData receives them, and its map over them
\* that adds tab_group and _flags.

MaxFlagLen == 4
FlagChars == {"a", "b", ",", " "}
FlagTexts == {NullStr} \cup SeqsUpTo(FlagChars, MaxFlagLen)

\* a row of the response body: the columns of joined.csv, no derived field
RawRow(flags) ==
    [grid_key_local |-> KeyA, flags |-> flags, available_inputs |-> <<"v", "p">>,
     automated_confidence |-> NullStr, confidence_anomaly |-> S_false,
     automated_uncapped_slam_forecast |-> Null, atrops_soft_cap |-> Null,
     setup_confidence_anomaly |-> NullStr, confidence_changed |-> NullStr]

InitFlags ==
    /\ gridData \in {<<RawRow(f)>> : f \in FlagTexts}
    /\ pbaData = <<>>
    /\ loading = TRUE
    /\ error = Nil
    /\ activeTab = S_all
    /\ selectedGridKey = Nil
    /\ loads = <<>>
    /\ NoSql
    /\ NoCsv
    /\ NoFs
    /\ NoEv
    /\ pc = "start"

\* (json as JoinedRow[]).map((r) => ({...r, tab_group: deriveTabGroup(r),
\* _flags: parseFlags(r)})); setGridData(rows)
mapRows ==
    /\ pc = "start"
    /\ gridData' = [i \in 1..Len(gridData) |->
                       JoinedRow(gridData[i].grid_key_local, gridData[i].flags,
                                 gridData[i].confidence_anomaly,
                                 gridData[i].automated_uncapped_slam_forecast,
                                 gridData[i].atrops_soft_cap,
                                 gridData[i].setup_confidence_anomaly,
                                 gridData[i].confidence_changed)]
    /\ loading' = FALSE
    /\ pc' = "done"
    /\ UNCHANGED <<pbaData, error, activeTab, selectedGridKey, loads>>
    /\ UNCHANGED sqlVars
    /\ UNCHANGED csvVars
    /\ UNCHANGED fsVars
    /\ UNCHANGED evVars

NextFlags == mapRows

SpecFlags == InitFlags /\ [][NextFlags]_vars

\* the tokens written one after the other
RECURSIVE Concat(_)
Concat(tokens) ==
    IF tokens = <<>> THEN <<>> ELSE Head(tokens) \o Concat(Tail(tokens))

\* no token is empty, the tokens follow the field (joined, they are the field
\* without its commas), and a null or empty field gives the empty list
TokensNonEmptyInFieldOrder(flags, tokens) ==
    /\ \A k \in 1..Len(tokens) : tokens[k] # <<>>
    /\ \A k \in 1..Len(tokens) : \A j \in 1..Len(tokens[k]) : tokens[k][j] # ","
    /\ flags \in {NullStr, <<>>} => tokens = <<>>
    /\ flags # NullStr => Concat(tokens) = SelectSeq(flags, LAMBDA c : c # ",")

\* no token carries leading or trailing whitespace
TokensTrimmed(tokens) ==
    \A k \in 1..Len(tokens) :
        tokens[k] # <<>> => tokens[k][1] # " " /\ tokens[k][Len(tokens[k])] # " "

\* C28: parseFlags gives the normalized list of the comma-separated tokens of
\* the flags field: no empty token, no leading or trailing whitespace on a
\* token, the order of the field, and the empty list for a null or empty field.
C28_ParseFlagsNormalizes ==
    pc = "done"
        => \A i \in 1..Len(gridData) :
               /\ TokensNonEmptyInFieldOrder(gridData[i].flags, gridData[i]._flags)
               /\ TokensTrimmed(gridData[i]._flags)

\* The parts of C28 other than the whitespace: these hold for every field.
C28_TokensNonEmptyInFieldOrder ==
    pc = "done"
        => \A i \in 1..Len(gridData) :
               TokensNonEmptyInFieldOrder(gridData[i].flags, gridData[i]._flags)


\* ------------------------------------------------------ loads that end
\* The loads under the assumption that every fetch settles and every body
\* read (json() / text()) settles: each await of loadData is resumed.

SettleOf(l) ==
    /\ l <= Len(loads)
    /\ \E g \in GridResponses : \E p \in PbaResponses : FetchesSettle(l, g, p)
GridBodyOf(l) == l <= Len(loads) /\ GridBodyRead(l)
PbaBodyOf(l) == l <= Len(loads) /\ PbaBodyRead(l)

SpecLoadFair ==
    /\ SpecLoad
    /\ \A l \in 1..MaxLoads :
           WF_vars(SettleOf(l)) /\ WF_vars(GridBodyOf(l)) /\ WF_vars(PbaBodyOf(l))

\* every load that is not superseded ends with loading = false
LoadEnds ==
    \A l \in 1..MaxLoads :
        (l <= Len(loads))
            ~> (/\ l <= Len(loads)
                /\ loads[l].cancelled \/ (loads[l].pc = "done" /\ ~loading))

\* what the most recent load writes: the body of an ok response, [] otherwise
latestGrid ==
    LET g == loads[Len(loads)].gridResp
    IN  IF fulfilledOk(g) THEN g.body ELSE <<>>
latestPba ==
    LET p == loads[Len(loads)].pbaResp
    IN  IF fulfilledOk(p) THEN p.body ELSE <<>>

\* with loading false and error null, both datasets hold what the most recent
\* load wrote
WrittenByLatest ==
    (~loading /\ error = Nil /\ Len(loads) > 0)
        => gridData = latestGrid /\ pbaData = latestPba

\* C29: assuming the fetches settle, every load that is not superseded
\* eventually ends with loading = false, whatever the fetches deliver; and
\* whenever loading is false with error null, gridData and pbaData were both
\* written by the most recent load.
C29_LoadEndsAndShowsLatest == LoadEnds /\ []WrittenByLatest

\* The first half of C29 alone.
C29_LoadEnds == LoadEnds


\* ---------------------------------------------------------------------
\* the step is a click of row clickedRow' with the outcome the selection rule
\* gives: another row's key is selected, the selected key is cleared, a row
\* without grid_key_local clears
ClickFollowsRule ==
    /\ clickedRow' \in 1..Len(gridData)
    /\ LET key == gridData[clickedRow'].grid_key_local
       IN  /\ (key # Nil /\ key # selectedGridKey) => selectedGridKey' = key
           /\ key = selectedGridKey => selectedGridKey' = Nil
           /\ key = Nil => selectedGridKey' = Nil

\* the selected key is null or the grid_key_local of the row clicked last
SelectedIsLastClicked ==
    IF clickedRow = 0 THEN selectedGridKey = Nil
    ELSE selectedGridKey \in {Nil, gridData[clickedRow].grid_key_local}

\* the chart has series only while a key is selected and telemetry rows of type
\* target, match or a reference marker exist for that key
SeriesOnlyForSelectedKey ==
    Len(chartResult.traces) > 0
        => /\ selectedGridKey # Nil
           /\ \E k \in 1..Len(pbaData) :
                  /\ pbaData[k].grid_key = selectedGridKey
                  /\ pbaData[k].pba_type \in {"target", "match"} \cup Range(MarkerTypes)

\* C30: after any sequence of row clicks the selected key is null or the
\* grid_key_local of the row clicked last: a click on another row selects it, a
\* click on the selected row clears the selection, a click on a row without
\* grid_key_local clears it; and the chart series are non-empty only while a key
\* is selected and has telemetry rows of type target, match or reference marker.
C30_SelectionFollowsLastClick ==
    /\ [][ClickFollowsRule]_vars
    /\ []SelectedIsLastClicked
    /\ []SeriesOnlyForSelectedKey

\* C30 witness: the key of the second row is selected, its chart has series, and
\* the telemetry of the first row's key is loaded as well
C30_Witness ==
    /\ selectedGridKey = KeyB
    /\ clickedRow = 2
    /\ gridData[clickedRow].grid_key_local = KeyB
    /\ Len(chartResult.traces) > 0
    /\ \E k \in 1..Len(pbaData) : pbaData[k].grid_key = KeyA

====
